---- MODULE Spec2Model ----
(***************************************************************************)
(* Model of nested_structures/__init__.py: the depth-first traversals      *)
(* apply_depth_first and apply_dict_depth_first and the flattening         *)
(* wrappers collect and dict_collect.                                      *)
(*                                                                         *)
(* Python values are records [tag, k, elts]: tag is the Python type, k the *)
(* text of a str or int, elts the elements of a container.  Every value    *)
(* has the same three fields, so any two values can be compared.           *)
(***************************************************************************)
EXTENDS Naturals, Sequences, FiniteSets, TLC

\* Bound: the largest number of nodes of an input forest or mapping.
MaxNodes == 4

\* The keys the inputs are labelled with (one-character strings).
Keys == {"a", "b"}

----------------------------------------------------------------------------
\* Python values.

Val(tag, k, elts) == [tag |-> tag, k |-> k, elts |-> elts]
Str(k) == Val("str", k, <<>>)
Int(k) == Val("int", k, <<>>)
None == Val("none", "", <<>>)
Tuple(elts) == Val("tuple", "", elts)
List(elts) == Val("list", "", elts)
\* An OrderedDict is the sequence of its (key, value) pairs in insertion order.
OrderedDict(elts) == Val("odict", "", elts)
\* An exception that propagates out of a call.
Raise(exc) == Val("raise", exc, <<>>)
IsRaise(v) == v.tag = "raise"

\* class Node: item and children.
Node(item, children) == Val("node", "", <<item, children>>)
NodeItem(n) == n.elts[1]
NodeChildren(n) == n.elts[2]

\* bool(v), as `if nodes:` and `elif children:` evaluate it.  A Node has
\* __len__, so it is true exactly when its children are non-empty.
RECURSIVE Truthy(_)
Truthy(v) ==
    CASE v.tag \in {"list", "tuple", "odict"} -> Len(v.elts) > 0
      [] v.tag = "str" -> v.k # ""
      [] v.tag = "int" -> v.k # "0"
      [] v.tag = "none" -> FALSE
      [] v.tag = "node" -> Truthy(NodeChildren(v))
      [] OTHER -> TRUE

\* Whether iter(v) succeeds.
Iterable(v) == v.tag \in {"list", "tuple", "odict", "str"}

\* The sequence iter(v) yields: the elements of a list or tuple, the keys of
\* an OrderedDict, the characters of a str (every str of the model has at
\* most one character).
Iter(v) ==
    CASE v.tag \in {"list", "tuple"} -> v.elts
      [] v.tag = "odict" -> [i \in 1..Len(v.elts) |-> v.elts[i].elts[1]]
      [] v.tag = "str" -> IF v.k = "" THEN <<>> ELSE <<Str(v.k)>>
      [] OTHER -> <<>>

\* hash(v) succeeds: lists and dicts are unhashable, a tuple is hashable when
\* its elements are.
RECURSIVE Hashable(_)
Hashable(v) ==
    CASE v.tag \in {"list", "odict"} -> FALSE
      [] v.tag = "tuple" -> \A i \in 1..Len(v.elts) : Hashable(v.elts[i])
      [] OTHER -> TRUE

\* Faulty variant of SetItem: a plain dict, keys not kept in insertion order (here:
\* a new key goes to the front).
SetItem_Unordered(d, key, value) ==
    IF \E i \in 1..Len(d.elts) : d.elts[i].elts[1] = key
    THEN OrderedDict([i \in 1..Len(d.elts) |->
                        IF d.elts[i].elts[1] = key
                        THEN Tuple(<<key, value>>) ELSE d.elts[i]])
    ELSE OrderedDict(<<Tuple(<<key, value>>)>> \o d.elts)

\* Faulty variant of SetItem: an overwritten key moves to the end (del, then insert).
SetItem_MoveToEnd(d, key, value) ==
    OrderedDict(Append(SelectSeq(d.elts, LAMBDA e : e.elts[1] # key),
                       Tuple(<<key, value>>)))

\* Faulty variant of SetItem: an existing key keeps its first value (setdefault).
SetItem_FirstWins(d, key, value) ==
    IF \E i \in 1..Len(d.elts) : d.elts[i].elts[1] = key
    THEN d
    ELSE OrderedDict(Append(d.elts, Tuple(<<key, value>>)))

\* OrderedDict.__setitem__: a new key is appended, an existing key keeps its
\* position and takes the new value.
SetItem(d, key, value) ==
    IF \E i \in 1..Len(d.elts) : d.elts[i].elts[1] = key
    THEN OrderedDict([i \in 1..Len(d.elts) |->
                        IF d.elts[i].elts[1] = key
                        THEN Tuple(<<key, value>>) ELSE d.elts[i]])
    ELSE OrderedDict(Append(d.elts, Tuple(<<key, value>>)))

\* OrderedDict.iteritems()
IterItems(d) == d.elts

----------------------------------------------------------------------------
\* The callbacks.

\* str.upper() on the keys of the model.
UpperOf(k) ==
    CASE k = "a" -> "A"
      [] k = "b" -> "B"
      [] OTHER -> k

\* The transforms a caller passes, by name:
\*   "key"    lambda node, parents, nodes: node          (collect's default)
\*   "upper"  lambda node, parents, nodes: node.upper()  (the docstring's example)
\*   "args"   lambda *args: tuple(args)                  (dict_collect's default)
Transforms == {"key", "upper", "args"}

Transform(t, a1, a2, a3) ==
    CASE t = "key" -> a1
      [] t = "upper" -> IF a1.tag = "str" THEN Str(UpperOf(a1.k))
                         ELSE Raise("AttributeError")
      [] OTHER -> Tuple(<<a1, a2, a3>>)

\* A func argument is a plain transform (kind "lambda") or the closure
\* __collect__ of collect / dict_collect over a transform (kind "collect").
Lambda(t) == [kind |-> "lambda", t |-> t]
Closure(t) == [kind |-> "collect", t |-> t]

\* What a traversal threads through its calls of func: calls, the arguments
\* of every invocation so far, in order; items, the list the closure
\* __collect__ appends to.
NoCalls == [calls |-> <<>>, items |-> <<>>]

\* Faulty variant of CollectAppend: items.insert(0, v).
CollectAppend_Front(items, v) == <<v>> \o items

\* items.append(v) inside __collect__.
CollectAppend(items, v) == Append(items, v)

\* One invocation func(a1, a2, a3): its value (or the exception it raises)
\* and the state after it.  __collect__ returns None.
Call(func, a1, a2, a3, st) ==
    LET v == Transform(func.t, a1, a2, a3)
        logged == [st EXCEPT !.calls = Append(@, Tuple(<<a1, a2, a3>>))]
    IN  IF func.kind = "lambda" \/ IsRaise(v)
        THEN [val |-> v, st |-> logged]
        ELSE [val |-> None,
              st |-> [logged EXCEPT !.items = CollectAppend(@, v)]]

----------------------------------------------------------------------------
\* apply_depth_first

\* `if isinstance(node, tuple): node, nodes = node  else: nodes = []`.
\* Unpacking a tuple of any other length than two raises ValueError.
Unpack(entry) ==
    IF entry.tag = "tuple"
    THEN IF Len(entry.elts) = 2
         THEN [ok |-> TRUE, node |-> entry.elts[1], nodes |-> entry.elts[2]]
         ELSE [ok |-> FALSE, node |-> None, nodes |-> None]
    ELSE [ok |-> TRUE, node |-> entry, nodes |-> List(<<>>)]

\* Faulty variant of ItemParents: the key is put in front, [node] + parents.
ItemParents_Prepend(parents, node) == List(<<node>> \o parents.elts)

\* item_parents = parents + [node]
ItemParents(parents, node) == List(Append(parents.elts, node))

\* Faulty variant of HasChildren: `if nodes is not None:`.
HasChildren_NotNone(nodes) == nodes # None

\* `if nodes:` whether the entry's children are traversed.
HasChildren(nodes) == Truthy(nodes)

\* Faulty variant of Store: sequence mode wraps every entry, `if nodes:` forgotten.
Store_AlwaysWrap(as_dict, items, node, nodes, item, children) ==
    IF as_dict
    THEN IF Hashable(node) THEN SetItem(items, node, Node(item, children))
         ELSE Raise("TypeError")
    ELSE List(Append(items.elts, Tuple(<<item, children>>)))

\* The last statement of the loop body: items[node] = Node(item, children),
\* items.append((item, children)) or items.append(item).
Store(as_dict, items, node, nodes, item, children) ==
    IF as_dict
    THEN IF Hashable(node) THEN SetItem(items, node, Node(item, children))
         ELSE Raise("TypeError")
    ELSE IF Truthy(nodes)
         THEN List(Append(items.elts, Tuple(<<item, children>>)))
         ELSE List(Append(items.elts, item))

RECURSIVE apply_depth_first(_, _, _, _, _)
RECURSIVE adf_loop(_, _, _, _, _, _, _)

\* The loop `for i, node in enumerate(nodes)` from its i-th element on, with
\* items the output built so far.  Returns [ret, st]: the function's return
\* value or the exception that ends it, and the threaded state.
adf_loop(seq, i, func, as_dict, parents, items, st) ==
    IF i > Len(seq) THEN [ret |-> items, st |-> st]
    ELSE
    LET u == Unpack(seq[i])
    IN  IF ~u.ok THEN [ret |-> Raise("ValueError"), st |-> st]
        ELSE
        LET c == Call(func, u.node, parents, u.nodes, st)
            item_parents == ItemParents(parents, u.node)
            sub == IF HasChildren(u.nodes)
                   THEN apply_depth_first(u.nodes, func, as_dict,
                                          item_parents, c.st)
                   ELSE [ret |-> None, st |-> c.st]
        IN  IF IsRaise(c.val) THEN [ret |-> c.val, st |-> c.st]
            ELSE IF IsRaise(sub.ret) THEN sub
            ELSE
            LET stored == Store(as_dict, items, u.node, u.nodes,
                                c.val, sub.ret)
            IN  IF IsRaise(stored) THEN [ret |-> stored, st |-> sub.st]
                ELSE adf_loop(seq, i + 1, func, as_dict, parents,
                              stored, sub.st)

\* apply_depth_first(nodes, func, as_dict, parents); parents is None at the
\* caller's call.  enumerate(nodes) raises TypeError when nodes is not
\* iterable.
apply_depth_first(nodes, func, as_dict, parents, st) ==
    LET items == IF as_dict THEN OrderedDict(<<>>) ELSE List(<<>>)
        ps == IF parents = None THEN List(<<>>) ELSE parents
    IN  IF ~Iterable(nodes) THEN [ret |-> Raise("TypeError"), st |-> st]
        ELSE adf_loop(Iter(nodes), 1, func, as_dict, ps, items, st)

----------------------------------------------------------------------------
\* apply_dict_depth_first

\* item_parents = parents + [(k, node)]
DictItemParents(parents, k, node) ==
    List(Append(parents.elts, Tuple(<<k, node>>)))

\* Faulty variant of DictHasChildren: `if node.children:`, as apply_depth_first
\* tests `if nodes:`.
DictHasChildren_Truthy(node) == Truthy(NodeChildren(node))

\* `if node.children is not None:` whether the node's children are traversed.
DictHasChildren(node) == NodeChildren(node) # None

\* The last statement of the loop body: items[k] = Node(item, children),
\* items.append((item, children)) or items.append(item).
DictStore(as_dict, items, k, item, children) ==
    IF as_dict THEN SetItem(items, k, Node(item, children))
    ELSE IF Truthy(children)
         THEN List(Append(items.elts, Tuple(<<item, children>>)))
         ELSE List(Append(items.elts, item))

RECURSIVE apply_dict_depth_first(_, _, _, _, _)
RECURSIVE addf_loop(_, _, _, _, _, _, _)

\* The loop `for i, (k, node) in enumerate(nodes.iteritems())` from its i-th
\* pair on.  node.children raises AttributeError when node is no Node.
addf_loop(seq, i, func, as_dict, parents, items, st) ==
    IF i > Len(seq) THEN [ret |-> items, st |-> st]
    ELSE
    LET k == seq[i].elts[1]
        node == seq[i].elts[2]
        c == Call(func, k, node, parents, st)
        item_parents == DictItemParents(parents, k, node)
        sub == IF DictHasChildren(node)
               THEN apply_dict_depth_first(NodeChildren(node), func, as_dict,
                                           item_parents, c.st)
               ELSE [ret |-> None, st |-> c.st]
    IN  IF IsRaise(c.val) THEN [ret |-> c.val, st |-> c.st]
        ELSE IF node.tag # "node"
        THEN [ret |-> Raise("AttributeError"), st |-> c.st]
        ELSE IF IsRaise(sub.ret) THEN sub
        ELSE addf_loop(seq, i + 1, func, as_dict, parents,
                       DictStore(as_dict, items, k, c.val, sub.ret), sub.st)

\* apply_dict_depth_first(nodes, func, as_dict, parents).  nodes.iteritems()
\* raises AttributeError when nodes is no OrderedDict.
apply_dict_depth_first(nodes, func, as_dict, parents, st) ==
    LET items == IF as_dict THEN OrderedDict(<<>>) ELSE List(<<>>)
        ps == IF parents = None THEN List(<<>>) ELSE parents
    IN  IF nodes.tag # "odict"
        THEN [ret |-> Raise("AttributeError"), st |-> st]
        ELSE addf_loop(IterItems(nodes), 1, func, as_dict, ps, items, st)

----------------------------------------------------------------------------
\* collect and dict_collect

\* `if transform is None: transform = lambda node, parents, nodes: node`
CollectTransform(transform) == IF transform = "None" THEN "key" ELSE transform

\* `if transform is None: transform = lambda *args: tuple(args)`
DictCollectTransform(transform) ==
    IF transform = "None" THEN "args" ELSE transform

\* collect(nested_nodes, transform): the list __collect__ filled, after
\* apply_depth_first(nested_nodes, __collect__) returned; its exception
\* otherwise.
collect(nested_nodes, transform) ==
    LET r == apply_depth_first(nested_nodes,
                               Closure(CollectTransform(transform)),
                               FALSE, None, NoCalls)
    IN  [ret |-> IF IsRaise(r.ret) THEN r.ret ELSE List(r.st.items),
         st |-> r.st]

\* dict_collect(nodes, transform): as collect, over
\* apply_dict_depth_first(nodes, __collect__) with as_dict at its default.
dict_collect(nodes, transform) ==
    LET r == apply_dict_depth_first(nodes,
                                    Closure(DictCollectTransform(transform)),
                                    TRUE, None, NoCalls)
    IN  [ret |-> IF IsRaise(r.ret) THEN r.ret ELSE List(r.st.items),
         st |-> r.st]

----------------------------------------------------------------------------
\* The inputs a caller passes.

RECURSIVE Forests(_)
RECURSIVE Entries(_)

\* The entries of exactly n nodes: a bare key, or a (key, children) pair.
Entries(n) ==
    (IF n = 1 THEN {Str(k) : k \in Keys} ELSE {})
    \cup {Tuple(<<Str(k), List(c)>>) : k \in Keys, c \in Forests(n - 1)}

\* The sequences of entries of exactly n nodes in all.
Forests(n) ==
    IF n = 0 THEN {<<>>}
    ELSE UNION {{<<e>> \o r : e \in Entries(m), r \in Forests(n - m)} :
                m \in 1..n}

\* Tuple entries that are no (key, list) pair: of length 0, 1 and 3; with a
\* second element that is None, a non-zero int, or a str.  The last four are
\* also what a bare key that is itself a 2-tuple looks like.
Malformed ==
    {Tuple(<<>>), Tuple(<<Str("a")>>),
     Tuple(<<Str("a"), List(<<>>), List(<<>>)>>),
     Tuple(<<Str("a"), None>>), Tuple(<<Str("a"), Int("5")>>),
     Tuple(<<Str("a"), Str("b")>>)}

RECURSIVE BadForests(_)
RECURSIVE BadEntries(_)

\* As Entries and Forests, with exactly one entry of Malformed in them.
BadEntries(n) ==
    (IF n = 1 THEN Malformed ELSE {})
    \cup (IF n > 1
          THEN {Tuple(<<Str(k), List(c)>>) : k \in Keys, c \in BadForests(n - 1)}
          ELSE {})

BadForests(n) ==
    IF n = 0 THEN {}
    ELSE UNION {{<<e>> \o r : e \in BadEntries(m), r \in Forests(n - m)}
                \cup {<<e>> \o r : e \in Entries(m), r \in BadForests(n - m)} :
                m \in 1..n}

RECURSIVE Mappings(_)

\* The OrderedDicts of key -> Node of exactly n nodes in all, as sequences
\* of (key, Node) pairs: keys distinct at each level, children None or an
\* OrderedDict (an empty one too).
Mappings(n) ==
    IF n = 0 THEN {<<>>}
    ELSE UNION {
           {<<Tuple(<<Str(km[1]), Node(Str("x"), ch)>>)>> \o r :
              ch \in (IF km[2] = 1 THEN {None} ELSE {})
                     \cup {OrderedDict(c) : c \in Mappings(km[2] - 1)},
              r \in {q \in Mappings(n - km[2]) :
                       \A i \in 1..Len(q) : q[i].elts[1] # Str(km[1])}} :
           km \in Keys \X (1..n)}

ForestInputs == UNION {{List(f) : f \in Forests(n)} : n \in 0..MaxNodes}
BadInputs ==
    UNION {{List(f) : f \in BadForests(n)} : n \in 1..(MaxNodes - 2)}
MappingInputs ==
    UNION {{OrderedDict(m) : m \in Mappings(n)} : n \in 0..MaxNodes}

----------------------------------------------------------------------------
\* The state machine: a caller holds data, calls one of the four functions
\* on it, and may pass a mapping-mode result on to dict_collect.

VARIABLES
    entries,    \* the caller's data
    nodes,      \* the argument of the call made (or to be made)
    op,         \* "idle", or the function that was called
    func,       \* the func / transform argument of the call
    as_dict,    \* the as_dict argument of the call
    ret,        \* what the call returned, or the exception it raised
    calls       \* the arguments of every invocation of func, in order

vars == <<entries, nodes, op, func, as_dict, ret, calls>>

Init ==
    /\ entries \in ForestInputs \cup BadInputs \cup MappingInputs
    /\ nodes = entries
    /\ op = "idle"
    /\ func = "None"
    /\ as_dict = FALSE
    /\ ret = None
    /\ calls = <<>>

\* apply_depth_first(nodes, func, as_dict) on a list.
ApplyDepthFirst ==
    /\ op = "idle"
    /\ nodes.tag = "list"
    /\ \E t \in Transforms, d \in BOOLEAN :
        LET r == apply_depth_first(nodes, Lambda(t), d, None, NoCalls)
        IN  /\ op' = "apply_depth_first"
            /\ func' = t
            /\ as_dict' = d
            /\ ret' = r.ret
            /\ calls' = r.st.calls
    /\ UNCHANGED <<entries, nodes>>

\* apply_dict_depth_first(nodes, func, as_dict) on an OrderedDict.
ApplyDictDepthFirst ==
    /\ op = "idle"
    /\ nodes.tag = "odict"
    /\ \E t \in Transforms, d \in BOOLEAN :
        LET r == apply_dict_depth_first(nodes, Lambda(t), d, None, NoCalls)
        IN  /\ op' = "apply_dict_depth_first"
            /\ func' = t
            /\ as_dict' = d
            /\ ret' = r.ret
            /\ calls' = r.st.calls
    /\ UNCHANGED <<entries, nodes>>

\* collect(nodes) and collect(nodes, transform) on a list.
Collect ==
    /\ op = "idle"
    /\ nodes.tag = "list"
    /\ \E t \in {"None", "upper", "args"} :
        LET r == collect(nodes, t)
        IN  /\ op' = "collect"
            /\ func' = t
            /\ ret' = r.ret
            /\ calls' = r.st.calls
    /\ as_dict' = FALSE
    /\ UNCHANGED <<entries, nodes>>

\* dict_collect(nodes) and dict_collect(nodes, transform) on an OrderedDict.
DictCollect ==
    /\ op = "idle"
    /\ nodes.tag = "odict"
    /\ \E t \in {"None", "key", "upper"} :
        LET r == dict_collect(nodes, t)
        IN  /\ op' = "dict_collect"
            /\ func' = t
            /\ ret' = r.ret
            /\ calls' = r.st.calls
    /\ as_dict' = TRUE
    /\ UNCHANGED <<entries, nodes>>

\* The two-stage pipeline dict_collect(apply_depth_first(entries, f,
\* as_dict=True)): the caller passes the OrderedDict the first call returned
\* to dict_collect.
Pipeline ==
    /\ op = "apply_depth_first"
    /\ as_dict
    /\ ret.tag = "odict"
    /\ \E t \in {"None", "key", "upper"} :
        LET r == dict_collect(ret, t)
        IN  /\ op' = "pipeline"
            /\ func' = t
            /\ ret' = r.ret
            /\ calls' = r.st.calls
    /\ nodes' = ret
    /\ UNCHANGED <<entries, as_dict>>

Next ==
    \/ ApplyDepthFirst
    \/ ApplyDictDepthFirst
    \/ Collect
    \/ DictCollect
    \/ Pipeline

Spec == Init /\ [][Next]_vars

----------------------------------------------------------------------------
\* The forest an input encodes, read as the data model describes it: an
\* entry is a bare key or a (key, children) pair.

RECURSIVE IsForestSeq(_)
IsEntry(e) ==
    \/ e.tag = "str"
    \/ /\ e.tag = "tuple"
       /\ Len(e.elts) = 2
       /\ e.elts[1].tag = "str"
       /\ e.elts[2].tag = "list"
       /\ IsForestSeq(e.elts[2].elts)
IsForestSeq(seq) == \A i \in 1..Len(seq) : IsEntry(seq[i])
IsForest(v) == v.tag = "list" /\ IsForestSeq(v.elts)

EntryKey(e) == IF e.tag = "tuple" THEN e.elts[1] ELSE e
EntryChildren(e) == IF e.tag = "tuple" THEN e.elts[2].elts ELSE <<>>

\* A node of a forest is named by its path: the index of its root entry,
\* then the index of each child on the way down.
RECURSIVE PathsOf(_)
PathsOf(seq) ==
    UNION {{<<i>>} \cup {<<i>> \o q : q \in PathsOf(EntryChildren(seq[i]))} :
           i \in 1..Len(seq)}

RECURSIVE EntryAt(_, _)
EntryAt(seq, path) ==
    IF Len(path) = 1 THEN seq[path[1]]
    ELSE EntryAt(EntryChildren(seq[path[1]]), Tail(path))

\* The keys of a node's ancestors, from the root to its parent.
AncestorKeys(seq, path) ==
    [j \in 1..(Len(path) - 1) |-> EntryKey(EntryAt(seq, SubSeq(path, 1, j)))]

\* Depth-first pre-order on paths: an ancestor comes before its descendants,
\* and otherwise the order of the siblings at which two paths part decides.
IsPrefix(x, y) == Len(x) < Len(y) /\ SubSeq(y, 1, Len(x)) = x
Before(x, y) ==
    \/ IsPrefix(x, y)
    \/ \E j \in 1..Len(x) :
        /\ j <= Len(y)
        /\ SubSeq(x, 1, j - 1) = SubSeq(y, 1, j - 1)
        /\ x[j] < y[j]
Position(paths, path) == 1 + Cardinality({q \in paths : Before(q, path)})

\* The transform's value for the node at a path.
ValueAt(t, seq, path) ==
    Transform(t, EntryKey(EntryAt(seq, path)), List(AncestorKeys(seq, path)),
              List(EntryChildren(EntryAt(seq, path))))

\* The shape-normalized forest: an explicit empty children list dropped.
RECURSIVE Normalized(_)
Normalized(seq) ==
    [i \in 1..Len(seq) |->
        IF EntryChildren(seq[i]) = <<>> THEN EntryKey(seq[i])
        ELSE Tuple(<<EntryKey(seq[i]), List(Normalized(EntryChildren(seq[i])))>>)]

\* No two entries of one level share a key, at any level.
RECURSIVE NoDuplicateSiblings(_)
NoDuplicateSiblings(seq) ==
    /\ \A i, j \in 1..Len(seq) : EntryKey(seq[i]) = EntryKey(seq[j]) => i = j
    /\ \A i \in 1..Len(seq) : NoDuplicateSiblings(EntryChildren(seq[i]))

\* The first argument of every invocation of func, in order.
CallKeys == [i \in 1..Len(calls) |-> calls[i].elts[1]]

----------------------------------------------------------------------------
\* C1. Sequence mode mirrors the input: the result has one element per
\* entry, in input order, f(key, parents, child_entries) for an entry without
\* children and the pair (f(...), child list) for one with children; with the
\* identity transform the result is the shape-normalized input.

RECURSIVE Mirror(_, _, _)
Mirror(t, seq, ps) ==
    [i \in 1..Len(seq) |->
        LET key == EntryKey(seq[i])
            ch == EntryChildren(seq[i])
            v == Transform(t, key, List(ps), List(ch))
        IN  IF ch = <<>> THEN v
            ELSE Tuple(<<v, List(Mirror(t, ch, Append(ps, key)))>>)]

C1_SequenceModeMirrorsInput ==
    (op = "apply_depth_first" /\ ~as_dict /\ IsForest(nodes)) =>
        /\ ret.tag = "list"
        /\ Len(ret.elts) = Len(nodes.elts)
        /\ ret = List(Mirror(func, nodes.elts, <<>>))
        /\ (func = "key" => ret = List(Normalized(nodes.elts)))

\* The docstring's layout in small: [("a", ["b", ("a", [])]), "b"] with the
\* identity transform.
C1_Witness ==
    /\ op = "apply_depth_first" /\ ~as_dict /\ func = "key"
    /\ nodes = List(<<Tuple(<<Str("a"),
                              List(<<Str("b"),
                                     Tuple(<<Str("a"), List(<<>>)>>)>>)>>),
                      Str("b")>>)
    /\ ret = List(<<Tuple(<<Str("a"), List(<<Str("b"), Str("a")>>)>>),
                    Str("b")>>)

----------------------------------------------------------------------------
\* C2. Mapping reconstruction: in mapping mode the result is an ordered
\* mapping whose key set is the set of top-level keys; for each key, item is
\* f(key, [], child_entries) of the last entry with that key, and children is
\* the mapping built recursively from that entry's children, or None when it
\* has none.

KeysOfMapping(d) == {d.elts[i].elts[1] : i \in 1..Len(d.elts)}
LastWithKey(seq, key) ==
    seq[CHOOSE i \in 1..Len(seq) :
          /\ EntryKey(seq[i]) = key
          /\ \A j \in (i + 1)..Len(seq) : EntryKey(seq[j]) # key]

RECURSIVE Reconstructs(_, _, _, _)
Reconstructs(d, t, seq, ps) ==
    /\ d.tag = "odict"
    /\ KeysOfMapping(d) = {EntryKey(seq[i]) : i \in 1..Len(seq)}
    /\ Cardinality(KeysOfMapping(d)) = Len(d.elts)
    /\ \A i \in 1..Len(d.elts) :
        LET key == d.elts[i].elts[1]
            node == d.elts[i].elts[2]
            ch == EntryChildren(LastWithKey(seq, key))
        IN  /\ node.tag = "node"
            /\ NodeItem(node) = Transform(t, key, List(ps), List(ch))
            /\ IF ch = <<>> THEN NodeChildren(node) = None
               ELSE Reconstructs(NodeChildren(node), t, ch, Append(ps, key))

C2_MappingReconstruction ==
    (op = "apply_depth_first" /\ as_dict /\ IsForest(nodes)) =>
        Reconstructs(ret, func, nodes.elts, <<>>)

\* [("a", ["b"]), ("a", ["a"])] under upper: the second "a" entry wins.
C2_Witness ==
    /\ op = "apply_depth_first" /\ as_dict /\ func = "upper"
    /\ nodes = List(<<Tuple(<<Str("a"), List(<<Str("b")>>)>>),
                      Tuple(<<Str("a"), List(<<Str("a")>>)>>)>>)
    /\ ret = OrderedDict(<<Tuple(<<Str("a"),
                Node(Str("A"),
                     OrderedDict(<<Tuple(<<Str("a"),
                                           Node(Str("A"), None)>>)>>))>>)>>)

----------------------------------------------------------------------------
\* C3. Parent-chain correctness: in every invocation of the transform made by
\* apply_depth_first, for a node at depth d the parents argument has length d
\* and lists the keys of the node's ancestors from the root to its parent,
\* whatever siblings and sibling subtrees were visited before it.

C3_ParentChain ==
    (op \in {"apply_depth_first", "collect"} /\ IsForest(nodes)) =>
        LET paths == PathsOf(nodes.elts)
        IN  /\ Len(calls) = Cardinality(paths)
            /\ \A path \in paths :
                LET c == calls[Position(paths, path)]
                IN  /\ c.elts[1] = EntryKey(EntryAt(nodes.elts, path))
                    /\ c.elts[2].tag = "list"
                    /\ Len(c.elts[2].elts) = Len(path) - 1
                    /\ c.elts[2].elts = AncestorKeys(nodes.elts, path)

\* [("a", [("b", ["a"]), "b"])]: the last "b" is visited after its sibling's
\* subtree and is passed ["a"]; the inner "a" is passed ["a", "b"].
C3_Witness ==
    /\ op = "apply_depth_first"
    /\ nodes = List(<<Tuple(<<Str("a"),
                  List(<<Tuple(<<Str("b"), List(<<Str("a")>>)>>),
                         Str("b")>>)>>)>>)
    /\ Len(calls) = 4
    /\ calls[3].elts[2] = List(<<Str("a"), Str("b")>>)
    /\ calls[4].elts[2] = List(<<Str("a")>>)

----------------------------------------------------------------------------
\* C4. collect returns transform(key, parents, child_entries) once per node
\* in depth-first pre-order: a node before its descendants, all descendants of
\* a node before its next sibling, siblings in input order; the default
\* transform gives the flattened keys, and collect([]) is [].

C4_CollectPreOrder ==
    (op = "collect" /\ IsForest(nodes)) =>
        LET paths == PathsOf(nodes.elts)
        IN  /\ ret.tag = "list"
            /\ Len(ret.elts) = Cardinality(paths)
            /\ \A path \in paths :
                ret.elts[Position(paths, path)] =
                    ValueAt(CollectTransform(func), nodes.elts, path)
            /\ (nodes = List(<<>>) => ret = List(<<>>))
            /\ (nodes = List(<<Tuple(<<Str("a"), List(<<Str("b"), Str("a")>>)>>),
                              Str("b")>>) /\ func = "None"
                => ret = List(<<Str("a"), Str("b"), Str("a"), Str("b")>>))

\* collect([("a", ["b", "a"]), "b"]) is ["a", "b", "a", "b"], as
\* collect([("File", ["Load", "Save"]), "Edit"]) is the four keys in order.
C4_Witness ==
    /\ op = "collect" /\ func = "None"
    /\ nodes = List(<<Tuple(<<Str("a"), List(<<Str("b"), Str("a")>>)>>),
                      Str("b")>>)
    /\ ret = List(<<Str("a"), Str("b"), Str("a"), Str("b")>>)

----------------------------------------------------------------------------
\* C5. Two-stage pipeline: dict_collect(apply_depth_first(entries, f,
\* as_dict=True)) visits nodes in the pre-order of collect(entries): the keys
\* passed to dict_collect's callback are the keys collect(entries) returns.

PipelineVisitsLikeCollect ==
    /\ ~IsRaise(ret)
    /\ List(CallKeys) = collect(entries, "None").ret

\* C5 as stated, for any entries.
C5_PipelineAnyEntries ==
    (op = "pipeline" /\ IsForest(entries)) => PipelineVisitsLikeCollect

\* C5 amended: for entries in which no two sibling entries share a key.
C5_PipelineDistinctSiblings ==
    (op = "pipeline" /\ IsForest(entries)
        /\ NoDuplicateSiblings(entries.elts)) => PipelineVisitsLikeCollect

\* The pipeline over [("a", ["b", "a"]), "b"] visits a, b, a, b.
C5_Witness ==
    /\ op = "pipeline"
    /\ entries = List(<<Tuple(<<Str("a"), List(<<Str("b"), Str("a")>>)>>),
                        Str("b")>>)
    /\ CallKeys = <<Str("a"), Str("b"), Str("a"), Str("b")>>

----------------------------------------------------------------------------
\* C6. Order preservation with opaque keys: for a sequence of entries without
\* children, each a bare key that may be any hashable value, collect(entries)
\* is the sequence of those keys in input order, and each key is passed to
\* the transform unchanged with empty child entries.

C6_OpaqueKeysOrder ==
    (op = "collect" /\ func = "None" /\ nodes.tag = "list"
        /\ \A i \in 1..Len(nodes.elts) : Hashable(nodes.elts[i])) =>
        /\ ret = nodes
        /\ calls = [i \in 1..Len(nodes.elts) |->
                      Tuple(<<nodes.elts[i], List(<<>>), List(<<>>)>>)]

----------------------------------------------------------------------------
\* C7. Shape errors are surfaced: apply_depth_first raises whenever some
\* entry is neither a bare key nor a 2-element pair whose second element is
\* an ordered sequence of entries.

RECURSIVE RecognizedShape(_)
RecognizedShape(v) ==
    /\ v.tag \in {"list", "tuple", "str"}
    /\ \A i \in 1..Len(v.elts) :
        v.elts[i].tag = "tuple" =>
            /\ Len(v.elts[i].elts) = 2
            /\ RecognizedShape(v.elts[i].elts[2])

C7_ShapeErrorsSurfaced ==
    (op = "apply_depth_first" /\ ~RecognizedShape(nodes)) => IsRaise(ret)

----------------------------------------------------------------------------
\* C8. An explicit empty children list is indistinguishable from no
\* children: replacing a bare key k by (k, []) leaves the output unchanged in
\* both modes; sequence mode emits no (value, children) wrapper for it,
\* mapping mode stores children = None, so no Node of a mapping-mode result
\* has an empty mapping as children.

RECURSIVE NoEmptyChildren(_)
NoEmptyChildren(d) ==
    \A i \in 1..Len(d.elts) :
        LET ch == NodeChildren(d.elts[i].elts[2])
        IN  ch = None \/ (ch.tag = "odict" /\ Len(ch.elts) > 0
                           /\ NoEmptyChildren(ch))

SameOnNormalized ==
    ret = apply_depth_first(List(Normalized(nodes.elts)), Lambda(func),
                            as_dict, None, NoCalls).ret

\* C8 as stated, for every transform.
C8_EmptyChildrenAnyTransform ==
    (op = "apply_depth_first" /\ IsForest(nodes)) =>
        /\ SameOnNormalized
        /\ (as_dict => NoEmptyChildren(ret))

\* C8 amended: the transform is called with child entries [] for the entry
\* either way and the engine handles it alike; the output is unchanged for
\* the transforms whose value does not depend on the raw child entries.
C8_EmptyChildrenAsNone ==
    (op = "apply_depth_first" /\ IsForest(nodes)) =>
        /\ (func \in {"key", "upper"} => SameOnNormalized)
        /\ (as_dict => NoEmptyChildren(ret))
        /\ LET paths == PathsOf(nodes.elts)
           IN  \A path \in paths :
                 EntryChildren(EntryAt(nodes.elts, path)) = <<>> =>
                     calls[Position(paths, path)].elts[3] = List(<<>>)
        /\ (~as_dict =>
              ret = List(Mirror(func, nodes.elts, <<>>)))

\* [("a", [("b", [])])] in mapping mode: "b" is stored with children None.
C8_Witness ==
    /\ op = "apply_depth_first" /\ as_dict /\ func = "key"
    /\ nodes = List(<<Tuple(<<Str("a"),
                  List(<<Tuple(<<Str("b"), List(<<>>)>>)>>)>>)>>)
    /\ ret = OrderedDict(<<Tuple(<<Str("a"),
                Node(Str("a"),
                     OrderedDict(<<Tuple(<<Str("b"),
                                           Node(Str("b"), None)>>)>>))>>)>>)

----------------------------------------------------------------------------
\* C9. apply_dict_depth_first is structure-preserving in mapping mode: the
\* result has the same keys in the same order at every level, each Node has
\* item = g(key, input_node, parent_entries) and children = None exactly when
\* the input node's children is None (otherwise the transformed children
\* mapping), parent_entries being the (key, input node) pairs of the node's
\* ancestors from the root down; in sequence mode an element is the pair
\* (value, child_result) only when child_result is non-empty, else the bare
\* value.

RECURSIVE DictMirror(_, _, _, _)
DictMirror(t, d, pairs, ps) ==
    [i \in 1..Len(pairs) |->
        LET k == pairs[i].elts[1]
            node == pairs[i].elts[2]
            v == Transform(t, k, node, List(ps))
            sub == DictMirror(t, d, NodeChildren(node).elts,
                              Append(ps, Tuple(<<k, node>>)))
        IN  IF d
            THEN Tuple(<<k, Node(v, IF NodeChildren(node) = None THEN None
                                    ELSE OrderedDict(sub))>>)
            ELSE IF NodeChildren(node) # None /\ sub # <<>>
                 THEN Tuple(<<v, List(sub)>>)
                 ELSE v]

C9_DictStructurePreserved ==
    (op = "apply_dict_depth_first" /\ nodes.tag = "odict") =>
        /\ ret = (IF as_dict THEN OrderedDict(DictMirror(func, TRUE, nodes.elts, <<>>))
                  ELSE List(DictMirror(func, FALSE, nodes.elts, <<>>)))
        /\ Len(ret.elts) = Len(nodes.elts)
        /\ (as_dict =>
              \A i \in 1..Len(nodes.elts) :
                 /\ ret.elts[i].elts[1] = nodes.elts[i].elts[1]
                 /\ (NodeChildren(ret.elts[i].elts[2]) = None
                       <=> NodeChildren(nodes.elts[i].elts[2]) = None))

\* {"a": Node("x", {}), "b": Node("x", None)}: the empty children mapping of
\* "a" stays an empty mapping, the None of "b" stays None.
C9_Witness ==
    /\ op = "apply_dict_depth_first" /\ as_dict /\ func = "upper"
    /\ nodes = OrderedDict(<<Tuple(<<Str("a"),
                                     Node(Str("x"), OrderedDict(<<>>))>>),
                             Tuple(<<Str("b"), Node(Str("x"), None)>>)>>)
    /\ ret = OrderedDict(<<Tuple(<<Str("a"),
                                   Node(Str("A"), OrderedDict(<<>>))>>),
                           Tuple(<<Str("b"), Node(Str("B"), None)>>)>>)

----------------------------------------------------------------------------
\* C10. Duplicate sibling keys in mapping mode: no error is raised, f is
\* invoked once for every entry (overwritten entries and their descendants
\* too, in the pre-order of sequence mode), and the mapping holds one Node per
\* distinct key, its item and children those of the last entry with the key,
\* at the position of the key's first occurrence.

RECURSIVE FirstOccurrences(_)
FirstOccurrences(seq) ==
    IF seq = <<>> THEN <<>>
    ELSE LET front == FirstOccurrences(SubSeq(seq, 1, Len(seq) - 1))
             key == EntryKey(seq[Len(seq)])
         IN  IF \E i \in 1..Len(front) : front[i] = key THEN front
             ELSE Append(front, key)

RECURSIVE LastWins(_, _, _)
LastWins(t, seq, ps) ==
    LET keys == FirstOccurrences(seq)
    IN  OrderedDict(
          [i \in 1..Len(keys) |->
              LET ch == EntryChildren(LastWithKey(seq, keys[i]))
              IN  Tuple(<<keys[i],
                          Node(Transform(t, keys[i], List(ps), List(ch)),
                               IF ch = <<>> THEN None
                               ELSE LastWins(t, ch, Append(ps, keys[i])))>>)])

C10_DuplicateSiblingKeys ==
    (op = "apply_depth_first" /\ as_dict /\ IsForest(nodes)
        /\ ~NoDuplicateSiblings(nodes.elts)) =>
        LET paths == PathsOf(nodes.elts)
        IN  /\ ~IsRaise(ret)
            /\ Len(calls) = Cardinality(paths)
            /\ \A path \in paths :
                 CallKeys[Position(paths, path)] =
                     EntryKey(EntryAt(nodes.elts, path))
            /\ calls = apply_depth_first(nodes, Lambda(func), FALSE, None,
                                         NoCalls).st.calls
            /\ ret = LastWins(func, nodes.elts, <<>>)

\* [("a", ["b"]), "b", "a"]: "a" keeps the first place and has the item and
\* the (absent) children of the last "a" entry; f was invoked four times.
C10_Witness ==
    /\ op = "apply_depth_first" /\ as_dict /\ func = "upper"
    /\ nodes = List(<<Tuple(<<Str("a"), List(<<Str("b")>>)>>),
                      Str("b"), Str("a")>>)
    /\ Len(calls) = 4
    /\ ret = OrderedDict(<<Tuple(<<Str("a"), Node(Str("A"), None)>>),
                           Tuple(<<Str("b"), Node(Str("B"), None)>>)>>)

====
